---- MODULE Spec2Model ----
(***************************************************************************)
(* Model of the GitLab compliance checker (script.py).  The module covers  *)
(* the file presence resolver, the template directory scanner, the         *)
(* pagination aggregator, the input classifier and the compliance          *)
(* evaluator.  Python strings the code converts (replace, upper, lower,    *)
(* strip, quote, regular expressions) are sequences of one-character       *)
(* strings, so that every conversion is computed character by character.   *)
(* The GitLab server is the environment: its answers are fixed by the      *)
(* variables files, tree, project, listing and site, chosen in Init.       *)
(***************************************************************************)
EXTENDS Integers, Sequences, FiniteSets, TLC

VARIABLES
  files,         \* the repository: set of <<project id, path, branch>> that exist
  tree,          \* answer of the repository/tree endpoint for .gitlab
  project,       \* answer of GET /projects/<id> for the hosted project
  listing,       \* behaviour of the paged GET /projects endpoint
  site,          \* users and projects known to the server, and the token's owner
  pc,            \* "idle", or "paging" while the pagination loop runs
  call,          \* the function last called and its argument
  page,          \* get_all_projects_with_pagination: local page
  all_projects,  \* get_all_projects_with_pagination: local all_projects
  requests,      \* the HTTP requests issued by the current call, in order
  warned,        \* st.warning was emitted by the current call
  result         \* the value returned by the last completed call

vars == <<files, tree, project, listing, site, pc, call, page, all_projects,
          requests, warned, result>>

world == <<files, tree, project, listing, site>>

(***************************************************************************)
(* Python string operations                                                *)
(***************************************************************************)
LowerLetters == <<"a", "b", "c", "d", "e", "f", "g", "h", "i", "j", "k", "l", "m", "n", "o", "p", "q", "r", "s", "t", "u", "v", "w", "x", "y", "z">>

UpperLetters == <<"A", "B", "C", "D", "E", "F", "G", "H", "I", "J", "K", "L", "M", "N", "O", "P", "Q", "R", "S", "T", "U", "V", "W", "X", "Y", "Z">>

Digits == {"0", "1", "2", "3", "4", "5", "6", "7", "8", "9"}

IndexIn(c, letters) ==
  IF \E i \in 1..Len(letters) : letters[i] = c
  THEN CHOOSE i \in 1..Len(letters) : letters[i] = c
  ELSE 0

lower_char(c) ==
  IF IndexIn(c, UpperLetters) > 0 THEN LowerLetters[IndexIn(c, UpperLetters)] ELSE c

upper_char(c) ==
  IF IndexIn(c, LowerLetters) > 0 THEN UpperLetters[IndexIn(c, LowerLetters)] ELSE c

\* str.lower()
lower(s) == [i \in 1..Len(s) |-> lower_char(s[i])]

\* str.upper()
upper(s) == [i \in 1..Len(s) |-> upper_char(s[i])]

\* s[i:i+len(sub)] == sub
OccursAt(s, i, sub) ==
  /\ i + Len(sub) - 1 <= Len(s)
  /\ \A k \in 1..Len(sub) : s[i + k - 1] = sub[k]

\* sub in s
contains(s, sub) == \E i \in 1..(Len(s) + 1) : OccursAt(s, i, sub)

\* s.endswith(suffix)
endswith(s, suffix) ==
  /\ Len(suffix) <= Len(s)
  /\ OccursAt(s, Len(s) - Len(suffix) + 1, suffix)

\* str.replace(old, new): every non-overlapping occurrence, left to right
RECURSIVE replace(_, _, _)
replace(s, old, new) ==
  IF Len(s) < Len(old) \/ Len(s) = 0 THEN s
  ELSE IF OccursAt(s, 1, old)
       THEN new \o replace(SubSeq(s, Len(old) + 1, Len(s)), old, new)
       ELSE <<Head(s)>> \o replace(Tail(s), old, new)

\* str.split(sep)[0]: the text before the first occurrence of sep
split_first(s, sep) ==
  IF contains(s, sep)
  THEN LET i == CHOOSE k \in 1..Len(s) :
                  /\ OccursAt(s, k, sep)
                  /\ \A j \in 1..(k - 1) : ~OccursAt(s, j, sep)
       IN SubSeq(s, 1, i - 1)
  ELSE s

\* str.strip(): leading and trailing blanks removed
RECURSIVE lstrip(_)
lstrip(s) == IF Len(s) > 0 /\ Head(s) = " " THEN lstrip(Tail(s)) ELSE s

RECURSIVE rstrip(_)
rstrip(s) ==
  IF Len(s) > 0 /\ s[Len(s)] = " " THEN rstrip(SubSeq(s, 1, Len(s) - 1)) ELSE s

strip(s) == rstrip(lstrip(s))

\* str.isdigit(): non-empty and every character a digit
isdigit(s) == Len(s) > 0 /\ \A i \in 1..Len(s) : s[i] \in Digits

\* requests.utils.quote(s, safe=''): letters, digits and _.-~ are kept, the
\* other characters of the alphabet are percent-encoded
quote_char(c) ==
  CASE c = "/" -> <<"%", "2", "F">>
    [] c = ":" -> <<"%", "3", "A">>
    [] c = " " -> <<"%", "2", "0">>
    [] c = "%" -> <<"%", "2", "5">>
    [] OTHER   -> <<c>>

RECURSIVE quote(_)
quote(s) == IF Len(s) = 0 THEN <<>> ELSE quote_char(Head(s)) \o quote(Tail(s))

\* bool(v) of a JSON value that is null, a string or a list
bool(v) == ~v.null /\ Len(v.value) > 0

Null == [null |-> TRUE, value |-> <<>>]

Json(v) == [null |-> FALSE, value |-> v]

(***************************************************************************)
(* Module constants of script.py                                           *)
(***************************************************************************)
GITLAB_URL == <<"h", "t", "t", "p", "s", ":", "/", "/", "c", "o", "d", "e", ".", "s", "w", "e", "c", "h", "a", ".", "o", "r", "g">>

README == <<"R", "E", "A", "D", "M", "E", ".", "m", "d">>

CONTRIBUTING == <<"C", "O", "N", "T", "R", "I", "B", "U", "T", "I", "N", "G", ".", "m", "d">>

CHANGELOG == <<"C", "H", "A", "N", "G", "E", "L", "O", "G", ".", "m", "d">>

LICENSE == <<"L", "I", "C", "E", "N", "S", "E">>

REQUIRED_FILES == <<README, CONTRIBUTING, CHANGELOG, LICENSE>>

FLEXIBLE_EXTENSION_FILES == <<<<"C", "H", "A", "N", "G", "E", "L", "O", "G">>>>

ISSUE_TEMPLATE_PATTERNS ==
  << <<"i", "s", "s", "u", "e", ".*", "t", "e", "m", "p", "l", "a", "t", "e", ".*", ".", "m", "d", "$">>,
     <<"i", "s", "s", "u", "e", ".*", "t", "e", "m", "p", "l", "a", "t", "e", "s", ".*", ".", "m", "d", "$">>,
     <<"i", "s", "s", "u", "e", "t", "e", "m", "p", "l", "a", "t", "e", ".*", ".", "m", "d", "$">>,
     <<"i", "s", "s", "u", "e", "t", "e", "m", "p", "l", "a", "t", "e", "s", ".*", ".", "m", "d", "$">> >>

MR_TEMPLATE_PATTERNS ==
  << <<"m", "e", "r", "g", "e", ".*", "r", "e", "q", "u", "e", "s", "t", ".*", "t", "e", "m", "p", "l", "a", "t", "e", ".*", ".", "m", "d", "$">>,
     <<"m", "e", "r", "g", "e", ".*", "r", "e", "q", "u", "e", "s", "t", ".*", "t", "e", "m", "p", "l", "a", "t", "e", "s", ".*", ".", "m", "d", "$">>,
     <<"m", "r", ".*", "t", "e", "m", "p", "l", "a", "t", "e", ".*", ".", "m", "d", "$">>,
     <<"m", "r", ".*", "t", "e", "m", "p", "l", "a", "t", "e", "s", ".*", ".", "m", "d", "$">>,
     <<"m", "e", "r", "g", "e", "r", "e", "q", "u", "e", "s", "t", "t", "e", "m", "p", "l", "a", "t", "e", ".*", ".", "m", "d", "$">>,
     <<"m", "e", "r", "g", "e", "r", "e", "q", "u", "e", "s", "t", "t", "e", "m", "p", "l", "a", "t", "e", "s", ".*", ".", "m", "d", "$">> >>

\* mutation: the loop never reaches main
BRANCHES_master_only == <<"master">>

\* mutation: the branches are tried in the opposite order
BRANCHES_main_first == <<"main", "master">>

BRANCHES == <<"master", "main">>

per_page == 100

MAX_PAGE == 1000

\* x in list
InList(x, list) == \E i \in 1..Len(list) : list[i] = x

(***************************************************************************)
(* The GitLab server (environment).  A request is recorded as the endpoint *)
(* it addresses, the project it concerns, the last path segment or query   *)
(* value, and its query parameters.                                        *)
(***************************************************************************)
Request(endpoint, proj, target, params) ==
  [endpoint |-> endpoint, project |-> proj, target |-> target, params |-> params]

NoParams == [none |-> TRUE]

\* status code of GET /projects/<id>/repository/files/<quoted path>?ref=<branch>
FileLookup(project_id, url_path, branch) ==
  IF \E f \in files : f[1] = project_id /\ quote(f[2]) = url_path /\ f[3] = branch
  THEN 200 ELSE 404

\* answer of GET /projects/<id>/repository/tree?path=.gitlab&recursive&per_page=100
TreeLookup(project_id) ==
  IF project_id = project.id /\ tree.status = 200
  THEN [status_code |-> 200, json |-> tree.entries]
  ELSE [status_code |-> IF project_id = project.id THEN tree.status ELSE 404,
        json |-> <<>>]

\* answer of GET /projects/<numeric id or quoted path>
ProjectLookup(target) ==
  LET hits == {p \in site.projects \cup {project} :
                 /\ p.status = 200
                 /\ (target = p.id \/ target = quote(p.path))}
  IN IF hits # {}
     THEN [status_code |-> 200, json |-> CHOOSE p \in hits : TRUE]
     ELSE [status_code |-> IF target = project.id THEN project.status ELSE 404,
           json |-> Null]

\* answer of GET /users?username=<name>: the users with exactly that name
UsersLookup(username) ==
  IF site.users_status # 200
  THEN [status_code |-> site.users_status, json |-> <<>>]
  ELSE [status_code |-> 200,
        json |-> IF username \in DOMAIN site.members
                 THEN <<[id |-> username, username |-> username]>>
                 ELSE <<>>]

\* the items the listing endpoint serves as page number p; with
\* membership=true they are the projects of the owner of the token
ListPage(p) ==
  IF listing.endless
  THEN [i \in 1..per_page |-> (p - 1) * per_page + i]
  ELSE LET first == (p - 1) * per_page + 1
           last  == IF p * per_page < Len(listing.items)
                    THEN p * per_page ELSE Len(listing.items)
       IN SubSeq(listing.items, first, last)

\* answer of GET /projects?page=<p>&per_page=100&...
ListLookup(p) ==
  IF listing.fail_at = p
  THEN [status_code |-> 500, json |-> <<>>]
  ELSE [status_code |-> 200, json |-> ListPage(p)]

(***************************************************************************)
(* File presence resolver                                                  *)
(***************************************************************************)
RECURSIVE file_exists_loop(_, _, _)
file_exists_loop(project_id, url, i) ==
  IF i > Len(BRANCHES) THEN [ret |-> FALSE, reqs |-> <<>>]
  ELSE LET rq  == Request("repository/files", project_id, url, [ref |-> BRANCHES[i]])
           res == FileLookup(project_id, url, BRANCHES[i])
       IN IF res = 200
          THEN [ret |-> TRUE, reqs |-> <<rq>>]
          ELSE LET rest == file_exists_loop(project_id, url, i + 1)
               IN [ret |-> rest.ret, reqs |-> <<rq>> \o rest.reqs]

file_exists(project_id, file_path) ==
  file_exists_loop(project_id, quote(file_path), 1)

\* mutation: the lower-case variants are built with upper()
variations_upper_only(base_name) ==
  << upper(base_name),
     upper(base_name),
     base_name \o <<".", "t", "x", "t">>,
     upper(base_name) \o <<".", "t", "x", "t">>,
     upper(base_name) \o <<".", "t", "x", "t">>,
     base_name \o <<".", "r", "s", "t">>,
     upper(base_name) \o <<".", "r", "s", "t">>,
     upper(base_name) \o <<".", "r", "s", "t">> >>

variations(base_name) ==
  << upper(base_name),
     lower(base_name),
     base_name \o <<".", "t", "x", "t">>,
     upper(base_name) \o <<".", "t", "x", "t">>,
     lower(base_name) \o <<".", "t", "x", "t">>,
     base_name \o <<".", "r", "s", "t">>,
     upper(base_name) \o <<".", "r", "s", "t">>,
     lower(base_name) \o <<".", "r", "s", "t">> >>

RECURSIVE variations_loop(_, _, _)
variations_loop(project_id, names, i) ==
  IF i > Len(names) THEN [ret |-> FALSE, reqs |-> <<>>]
  ELSE LET probe == file_exists(project_id, names[i])
       IN IF probe.ret THEN probe
          ELSE LET rest == variations_loop(project_id, names, i + 1)
               IN [ret |-> rest.ret, reqs |-> probe.reqs \o rest.reqs]

file_exists_flexible(project_id, file_path) ==
  LET first     == file_exists(project_id, file_path)
      base_name == replace(file_path, <<".", "m", "d">>, <<>>)
  IN IF first.ret THEN first
     ELSE IF InList(base_name, FLEXIBLE_EXTENSION_FILES)
          THEN LET bare == file_exists(project_id, base_name)
               IN IF bare.ret
                  THEN [ret |-> TRUE, reqs |-> first.reqs \o bare.reqs]
                  ELSE LET rest == variations_loop(project_id, variations(base_name), 1)
                       IN [ret |-> rest.ret,
                           reqs |-> first.reqs \o bare.reqs \o rest.reqs]
          ELSE [ret |-> FALSE, reqs |-> first.reqs]

(***************************************************************************)
(* Template directory scanner                                              *)
(***************************************************************************)
\* Matching of a pattern from position i against s from position j.  The
\* tokens of a pattern are ".*" (any characters), "$" (end of the string) and
\* literal characters; re.IGNORECASE compares letters regardless of case.
RECURSIVE re_match_at(_, _, _, _)
re_match_at(pattern, i, s, j) ==
  IF i > Len(pattern) THEN TRUE
  ELSE IF pattern[i] = "$"
       THEN j = Len(s) + 1 /\ re_match_at(pattern, i + 1, s, j)
  ELSE IF pattern[i] = ".*"
       THEN \E k \in j..(Len(s) + 1) : re_match_at(pattern, i + 1, s, k)
  ELSE /\ j <= Len(s)
       /\ lower_char(s[j]) = lower_char(pattern[i])
       /\ re_match_at(pattern, i + 1, s, j + 1)

\* re.match(pattern, s, re.IGNORECASE): the match must begin at the first character
re_match(pattern, s) == re_match_at(pattern, 1, s, 1)

match_template_patterns(filename, patterns) ==
  IF ~endswith(lower(filename), <<".", "m", "d">>) THEN FALSE
  ELSE LET filename_lower == lower(filename)
       IN \E i \in 1..Len(patterns) : re_match(patterns[i], filename_lower)

directory_contains_templates(project_id, template_patterns) ==
  LET rq  == Request("repository/tree", project_id, <<".", "g", "i", "t", "l", "a", "b">>,
                     [recursive |-> TRUE, per_page |-> 100])
      res == TreeLookup(project_id)
      blobs == SelectSeq(res.json, LAMBDA f : f.type = "blob")
      names == [i \in 1..Len(blobs) |-> blobs[i].name]
  IN IF res.status_code # 200 THEN [ret |-> FALSE, reqs |-> <<rq>>]
     ELSE [ret |-> \E i \in 1..Len(names) :
                      match_template_patterns(names[i], template_patterns),
           reqs |-> <<rq>>]

(***************************************************************************)
(* Compliance evaluator                                                    *)
(***************************************************************************)
EmptyDict == [k \in {} |-> FALSE]

\* status[key] = value
Put(dict, key, value) ==
  [k \in DOMAIN dict \cup {key} |-> IF k = key THEN value ELSE dict[k]]

ISSUE_KEY == <<".", "g", "i", "t", "l", "a", "b", "/", "i", "s", "s", "u", "e", "_", "t", "e", "m", "p", "l", "a", "t", "e", "s">>

MR_KEY == <<".", "g", "i", "t", "l", "a", "b", "/", "m", "e", "r", "g", "e", "_", "r", "e", "q", "u", "e", "s", "t", "_", "t", "e", "m", "p", "l", "a", "t", "e", "s">>

DESCRIPTION_KEY == <<"d", "e", "s", "c", "r", "i", "p", "t", "i", "o", "n", "_", "p", "r", "e", "s", "e", "n", "t">>

TAGS_KEY == <<"t", "a", "g", "s", "_", "p", "r", "e", "s", "e", "n", "t">>

RECURSIVE required_files_loop(_, _, _, _)
required_files_loop(project_id, i, status, reqs) ==
  IF i > Len(REQUIRED_FILES) THEN [status |-> status, reqs |-> reqs]
  ELSE LET file  == REQUIRED_FILES[i]
           probe == IF InList(replace(file, <<".", "m", "d">>, <<>>), FLEXIBLE_EXTENSION_FILES)
                    THEN file_exists_flexible(project_id, file)
                    ELSE file_exists(project_id, file)
       IN required_files_loop(project_id, i + 1, Put(status, file, probe.ret),
                              reqs \o probe.reqs)

\* mutation: a failed metadata request returns what was collected so far
compliance_result_partial(status, res) ==
  IF res.status_code # 200 THEN status
  ELSE LET proj == res.json
           s1 == Put(status, DESCRIPTION_KEY, bool(proj.description))
       IN Put(s1, TAGS_KEY, bool(proj.tag_list) /\ Len(proj.tag_list.value) > 0)

\* mutation: tags_present is recorded only for a project that has a tag list
compliance_result_skips_tags(status, res) ==
  IF res.status_code # 200 THEN EmptyDict
  ELSE LET proj == res.json
           s1 == Put(status, DESCRIPTION_KEY, bool(proj.description))
       IN IF proj.tag_list.null THEN s1
          ELSE Put(s1, TAGS_KEY, Len(proj.tag_list.value) > 0)

\* the tail of get_compliance_status: the metadata record decides the return value
compliance_result(status, res) ==
  IF res.status_code # 200 THEN EmptyDict
  ELSE LET proj == res.json
           s1 == Put(status, DESCRIPTION_KEY, bool(proj.description))
       IN Put(s1, TAGS_KEY, bool(proj.tag_list) /\ Len(proj.tag_list.value) > 0)

get_compliance_status(project_id) ==
  LET fl  == required_files_loop(project_id, 1, EmptyDict, <<>>)
      it  == directory_contains_templates(project_id, ISSUE_TEMPLATE_PATTERNS)
      mr  == directory_contains_templates(project_id, MR_TEMPLATE_PATTERNS)
      s6  == Put(Put(fl.status, ISSUE_KEY, it.ret), MR_KEY, mr.ret)
      rq  == Request("projects/:id", project_id, project_id, NoParams)
      res == ProjectLookup(project_id)
  IN [ret  |-> compliance_result(s6, res),
      reqs |-> fl.reqs \o it.reqs \o mr.reqs \o <<rq>>]

\* score = sum(1 for present in status.values() if present)
score(status) == Cardinality({k \in DOMAIN status : status[k]})

\* total = len(status)
total(status) == Cardinality(DOMAIN status)

(***************************************************************************)
(* Pagination aggregator: one iteration of the while loop                  *)
(***************************************************************************)
\* current_params = params.copy(); current_params.update({page, per_page})
current_params(params, pg) ==
  [membership |-> params.membership, order_by |-> params.order_by,
   page |-> pg, per_page |-> per_page]

\* mutation: a full page is taken for the last one
pagination_body_short_or_full(res, collected, pg) ==
  IF res.status_code # 200
  THEN [stop |-> TRUE, all_projects |-> collected, page |-> pg, warned |-> FALSE]
  ELSE IF Len(res.json) = 0
  THEN [stop |-> TRUE, all_projects |-> collected, page |-> pg, warned |-> FALSE]
  ELSE IF Len(res.json) <= per_page
  THEN [stop |-> TRUE, all_projects |-> collected \o res.json, page |-> pg,
        warned |-> FALSE]
  ELSE [stop |-> FALSE, all_projects |-> collected \o res.json, page |-> pg + 1,
        warned |-> FALSE]

\* mutation: a failed request throws away what was collected
pagination_body_discards(res, collected, pg) ==
  IF res.status_code # 200
  THEN [stop |-> TRUE, all_projects |-> <<>>, page |-> pg, warned |-> FALSE]
  ELSE IF Len(res.json) = 0
  THEN [stop |-> TRUE, all_projects |-> collected, page |-> pg, warned |-> FALSE]
  ELSE IF Len(res.json) < per_page
  THEN [stop |-> TRUE, all_projects |-> collected \o res.json, page |-> pg,
        warned |-> FALSE]
  ELSE IF pg + 1 > MAX_PAGE
  THEN [stop |-> TRUE, all_projects |-> collected \o res.json, page |-> pg + 1,
        warned |-> TRUE]
  ELSE [stop |-> FALSE, all_projects |-> collected \o res.json, page |-> pg + 1,
        warned |-> FALSE]

\* the loop body after the request: what is collected, the next page number,
\* whether the loop is left and whether the warning is emitted
pagination_body(res, collected, pg) ==
  IF res.status_code # 200
  THEN [stop |-> TRUE, all_projects |-> collected, page |-> pg, warned |-> FALSE]
  ELSE IF Len(res.json) = 0
  THEN [stop |-> TRUE, all_projects |-> collected, page |-> pg, warned |-> FALSE]
  ELSE IF Len(res.json) < per_page
  THEN [stop |-> TRUE, all_projects |-> collected \o res.json, page |-> pg,
        warned |-> FALSE]
  ELSE IF pg + 1 > MAX_PAGE
  THEN [stop |-> TRUE, all_projects |-> collected \o res.json, page |-> pg + 1,
        warned |-> TRUE]
  ELSE [stop |-> FALSE, all_projects |-> collected \o res.json, page |-> pg + 1,
        warned |-> FALSE]

CONTRIBUTED_PARAMS == [membership |-> TRUE, order_by |-> "last_activity_at"]

(***************************************************************************)
(* Input classifier                                                        *)
(***************************************************************************)
get_project_by_id_or_url(project_input) ==
  IF isdigit(project_input)
  THEN LET res == ProjectLookup(project_input)
       IN [ret  |-> IF res.status_code = 200 THEN Json(res.json) ELSE Null,
           reqs |-> <<Request("projects/:id", project_input, project_input, NoParams)>>]
  ELSE IF contains(project_input, GITLAB_URL)
  THEN LET path    == split_first(replace(project_input, GITLAB_URL \o <<"/">>, <<>>),
                                  <<"/", "-", "/">>)
           encoded == quote(path)
           res     == ProjectLookup(encoded)
       IN [ret  |-> IF res.status_code = 200 THEN Json(res.json) ELSE Null,
           reqs |-> <<Request("projects/:id", encoded, encoded, NoParams)>>]
  ELSE [ret |-> Null, reqs |-> <<>>]

Outcome(kind, data) == [kind |-> kind, data |-> data]

\* mutation: the numeric branch is missing, digits are taken for a username
input_branch_no_id(input_value) ==
  IF contains(input_value, GITLAB_URL) THEN "url" ELSE "username"

\* which branch of the classifier an input takes
input_branch(input_value) ==
  IF contains(input_value, GITLAB_URL) THEN "url"
  ELSE IF isdigit(input_value) THEN "id"
  ELSE "username"

\* what the classifier returns once get_contributed_projects has returned
username_outcome(input_value, projects) ==
  IF Len(projects) > 0
  THEN Outcome("projects", projects)
  ELSE Outcome("error", <<"N", "o", " ", "p", "r", "o", "j", "e", "c", "t", "s", " ", "f", "o", "u", "n", "d", " ", "f", "o", "r", " ", "u", "s", "e", "r", "n", "a", "m", "e", ":", " ">> \o input_value)

\* what a completed pagination loop hands back through its callers
Return(c, collected) ==
  IF c.fn = "determine_input_type_and_process"
  THEN username_outcome(strip(c.arg), collected)
  ELSE collected

(***************************************************************************)
(* Actions: one per call                                                   *)
(***************************************************************************)
Call(fn, arg, params) == [fn |-> fn, arg |-> arg, params |-> params]

NoCall == Call("none", <<>>, NoParams)

\* a call that completes in one step
Completes(c, r) ==
  /\ pc = "idle"
  /\ pc' = "idle"
  /\ call' = c
  /\ result' = r.ret
  /\ requests' = r.reqs
  /\ warned' = FALSE
  /\ page' = 1
  /\ all_projects' = <<>>
  /\ UNCHANGED world

FileExists(project_id, file_path) ==
  Completes(Call("file_exists", <<project_id, file_path>>, NoParams),
            file_exists(project_id, file_path))

FileExistsFlexible(project_id, file_path) ==
  Completes(Call("file_exists_flexible", <<project_id, file_path>>, NoParams),
            file_exists_flexible(project_id, file_path))

DirectoryContainsTemplates(project_id, template_patterns) ==
  Completes(Call("directory_contains_templates", <<project_id, template_patterns>>,
                 NoParams),
            directory_contains_templates(project_id, template_patterns))

GetComplianceStatus(project_id) ==
  Completes(Call("get_compliance_status", project_id, NoParams),
            get_compliance_status(project_id))

\* get_all_projects_with_pagination(params) is entered: lines 126-128
GetAllProjects(params) ==
  /\ pc = "idle"
  /\ pc' = "paging"
  /\ call' = Call("get_all_projects_with_pagination", params, params)
  /\ page' = 1
  /\ all_projects' = <<>>
  /\ requests' = <<>>
  /\ warned' = FALSE
  /\ result' = <<>>
  /\ UNCHANGED world

\* one iteration of the while loop, and the return when the loop is left
PageStep ==
  /\ pc = "paging"
  /\ LET res == ListLookup(page)
         rq  == Request("projects", <<>>, <<>>, current_params(call.params, page))
         out == pagination_body(res, all_projects, page)
     IN /\ requests' = Append(requests, rq)
        /\ all_projects' = out.all_projects
        /\ page' = out.page
        /\ warned' = out.warned
        /\ pc' = IF out.stop THEN "idle" ELSE "paging"
        /\ result' = IF out.stop THEN Return(call, out.all_projects) ELSE result
  /\ UNCHANGED <<world, call>>

\* determine_input_type_and_process(input_value); a username that is found
\* enters the pagination loop through get_contributed_projects
DetermineInput(raw) ==
  LET input_value == strip(raw)
      c == Call("determine_input_type_and_process", raw, CONTRIBUTED_PARAMS)
  IN IF input_branch(input_value) = "url"
     THEN LET p == get_project_by_id_or_url(input_value)
          IN Completes(c, [ret |-> IF ~p.ret.null
                                   THEN Outcome("project", p.ret.value)
                                   ELSE Outcome("error",
                                     <<"C", "o", "u", "l", "d", " ", "n", "o", "t", " ", "f", "e", "t", "c", "h", " ", "p", "r", "o", "j", "e", "c", "t", " ", "f", "r", "o", "m", " ", "t", "h", "e", " ", "p", "r", "o", "v", "i", "d", "e", "d", " ", "U", "R", "L">>),
                           reqs |-> p.reqs])
     ELSE IF input_branch(input_value) = "id"
     THEN LET p == get_project_by_id_or_url(input_value)
          IN Completes(c, [ret |-> IF ~p.ret.null
                                   THEN Outcome("project", p.ret.value)
                                   ELSE Outcome("error",
                                     <<"N", "o", " ", "p", "r", "o", "j", "e", "c", "t", " ", "f", "o", "u", "n", "d", " ", "w", "i", "t", "h", " ", "I", "D", ":", " ">> \o input_value),
                           reqs |-> p.reqs])
     ELSE LET rq        == Request("users", <<>>, input_value, NoParams)
              user_resp == UsersLookup(input_value)
          IN IF user_resp.status_code # 200 \/ Len(user_resp.json) = 0
             THEN Completes(c, [ret  |-> username_outcome(input_value, <<>>),
                                reqs |-> <<rq>>])
             ELSE /\ pc = "idle"
                  /\ pc' = "paging"
                  /\ call' = c
                  /\ page' = 1
                  /\ all_projects' = <<>>
                  /\ requests' = <<rq>>
                  /\ warned' = FALSE
                  /\ result' = <<>>
                  /\ UNCHANGED world

(***************************************************************************)
(* Bounds and the server states the specifications start from              *)
(***************************************************************************)
MaxFiles == 2

MaxEntries == 1

MaxItems == 250

MaxFailPage == 3

MaxProjects == 2

HostedId == <<"1">>

RECURSIVE SubsetsUpTo(_, _)
SubsetsUpTo(S, k) ==
  IF k = 0 THEN {{}}
  ELSE LET T == SubsetsUpTo(S, k - 1) IN T \cup {t \cup {x} : t \in T, x \in S}

RECURSIVE SetToSeq(_)
SetToSeq(S) ==
  IF S = {} THEN <<>>
  ELSE LET m == CHOOSE x \in S : \A y \in S : x <= y
       IN <<m>> \o SetToSeq(S \ {m})

SeqsUpTo(S, k) == UNION {[1..n -> S] : n \in 0..k}

\* the names file_exists_flexible probes for CHANGELOG.md, in the order of
\* their first probe
ChangelogCandidates ==
  << <<"C", "H", "A", "N", "G", "E", "L", "O", "G", ".", "m", "d">>, <<"C", "H", "A", "N", "G", "E", "L", "O", "G">>, <<"c", "h", "a", "n", "g", "e", "l", "o", "g">>, <<"C", "H", "A", "N", "G", "E", "L", "O", "G", ".", "t", "x", "t">>,
     <<"c", "h", "a", "n", "g", "e", "l", "o", "g", ".", "t", "x", "t">>, <<"C", "H", "A", "N", "G", "E", "L", "O", "G", ".", "r", "s", "t">>, <<"c", "h", "a", "n", "g", "e", "l", "o", "g", ".", "r", "s", "t">> >>

\* names that are no candidate
OtherChangelogs == {<<"c", "h", "a", "n", "g", "e", "l", "o", "g", ".", "m", "d">>}

FilePaths ==
  {README, CONTRIBUTING, LICENSE} \cup OtherChangelogs
    \cup {ChangelogCandidates[i] : i \in 1..Len(ChangelogCandidates)}

FileSlots == {<<HostedId, p, b>> : p \in FilePaths, b \in {"master", "main"}}

HostedProject(st, description, tag_list) ==
  [id |-> HostedId, path |-> <<"g", "/", "p">>, status |-> st,
   description |-> description, tag_list |-> tag_list]

NoTree == [status |-> 404, entries |-> <<>>]

NoListing == [endless |-> FALSE, items |-> <<>>, fail_at |-> 0]

NoSite == [projects |-> {}, members |-> <<>>, owner |-> <<>>, users_status |-> 200]

Idle ==
  /\ pc = "idle"
  /\ call = NoCall
  /\ page = 1
  /\ all_projects = <<>>
  /\ requests = <<>>
  /\ warned = FALSE
  /\ result = <<>>

(***************************************************************************)
(* SpecFiles: the file presence resolver over small repositories           *)
(***************************************************************************)
InitFiles ==
  /\ files \in SubsetsUpTo(FileSlots, MaxFiles)
  /\ tree = NoTree
  /\ project = HostedProject(200, Null, Null)
  /\ listing = NoListing
  /\ site = NoSite
  /\ Idle

NextFiles ==
  \/ \E p \in FilePaths : FileExists(HostedId, p)
  \/ \E p \in {CHANGELOG, README} : FileExistsFlexible(HostedId, p)

SpecFiles == InitFiles /\ [][NextFiles]_vars

(***************************************************************************)
(* SpecStatus: the template scanner and the compliance evaluator           *)
(***************************************************************************)
StatusRepos ==
  {r \cup c \cup g :
     r \in {{}, {<<HostedId, README, "main">>}},
     c \in {{}, {<<HostedId, CONTRIBUTING, "master">>, <<HostedId, LICENSE, "main">>}},
     g \in {{}, {<<HostedId, CHANGELOG, "main">>},
            {<<HostedId, <<"c", "h", "a", "n", "g", "e", "l", "o", "g", ".", "t", "x", "t">>, "master">>}}}

Blob(name) == [name |-> name, type |-> "blob"]

\* the listing of the matching example
ExampleListing ==
  << Blob(<<"0", "0", "0", "1", "-", "b", "u", "g", "-", "i", "s", "s", "u", "e", "-", "t", "e", "m", "p", "l", "a", "t", "e", ".", "m", "d">>), Blob(<<"r", "a", "n", "d", "o", "m", ".", "m", "d">>),
     Blob(<<"m", "e", "r", "g", "e", "_", "r", "e", "q", "u", "e", "s", "t", "_", "t", "e", "m", "p", "l", "a", "t", "e", ".", "M", "D">>) >>

\* a listing with an issue template and a merge request template
CompleteListing ==
  << Blob(<<"I", "s", "s", "u", "e", "-", "T", "e", "m", "p", "l", "a", "t", "e", "s", ".", "M", "D">>), Blob(<<"m", "r", "_", "t", "e", "m", "p", "l", "a", "t", "e", ".", "m", "d">>) >>

EntryNames ==
  { <<"i", "s", "s", "u", "e", "_", "t", "e", "m", "p", "l", "a", "t", "e", ".", "m", "d">>, <<"I", "s", "s", "u", "e", "-", "T", "e", "m", "p", "l", "a", "t", "e", "s", ".", "M", "D">>, <<"0", "0", "0", "1", "-", "b", "u", "g", "-", "i", "s", "s", "u", "e", "-", "t", "e", "m", "p", "l", "a", "t", "e", ".", "m", "d">>,
    <<"i", "s", "s", "u", "e", "_", "t", "e", "m", "p", "l", "a", "t", "e", ".", "t", "x", "t">>, <<"m", "e", "r", "g", "e", "_", "r", "e", "q", "u", "e", "s", "t", "_", "t", "e", "m", "p", "l", "a", "t", "e", ".", "M", "D">>, <<"r", "a", "n", "d", "o", "m", ".", "m", "d">> }

EntryPool ==
  {Blob(n) : n \in EntryNames} \cup {[name |-> <<"i", "s", "s", "u", "e", "_", "t", "e", "m", "p", "l", "a", "t", "e", ".", "m", "d">>, type |-> "tree"]}

Trees ==
  { NoTree, [status |-> 200, entries |-> ExampleListing],
    [status |-> 200, entries |-> CompleteListing] }
    \cup {[status |-> 200, entries |-> e] : e \in SeqsUpTo(EntryPool, MaxEntries)}

Projects ==
  { HostedProject(404, Null, Null), HostedProject(500, Json(<<"d">>), Json(<<<<"t">>>>)),
    HostedProject(200, Null, Null), HostedProject(200, Json(<<>>), Json(<<>>)),
    HostedProject(200, Json(<<"d">>), Json(<<<<"t">>>>)),
    HostedProject(200, Json(<<"d">>), Null) }

InitStatus ==
  /\ files \in StatusRepos
  /\ tree \in Trees
  /\ project \in Projects
  /\ listing = NoListing
  /\ site = NoSite
  /\ Idle

NextStatus ==
  \/ GetComplianceStatus(HostedId)
  \/ \E ps \in {ISSUE_TEMPLATE_PATTERNS, MR_TEMPLATE_PATTERNS} :
       DirectoryContainsTemplates(HostedId, ps)

SpecStatus == InitStatus /\ [][NextStatus]_vars

(***************************************************************************)
(* SpecPages: the pagination aggregator against listing endpoints          *)
(***************************************************************************)
Listings ==
  {[endless |-> FALSE, items |-> [i \in 1..n |-> i], fail_at |-> f] :
     n \in 0..MaxItems, f \in 0..MaxFailPage}
    \cup {[endless |-> TRUE, items |-> <<>>, fail_at |-> f] : f \in 0..MaxFailPage}

ParamsPool == {CONTRIBUTED_PARAMS, [membership |-> FALSE, order_by |-> "id"]}

InitPages ==
  /\ files = {}
  /\ tree = NoTree
  /\ project = HostedProject(404, Null, Null)
  /\ listing \in Listings
  /\ site = NoSite
  /\ Idle

NextPages ==
  \/ \E params \in ParamsPool : GetAllProjects(params)
  \/ PageStep

SpecPages == InitPages /\ [][NextPages]_vars

\* the loop runs to completion: script.py is single-threaded and synchronous
SpecPagesFair == SpecPages /\ WF_vars(PageStep)

(***************************************************************************)
(* SpecInput: the input classifier against small sites                     *)
(***************************************************************************)
UserPool == {<<"a", "l">>, <<"b", "o">>, <<"1", "2">>}

ProjectPool ==
  { [id |-> <<"1", "2">>, path |-> <<"g", "/", "p">>, status |-> 200, description |-> Null,
     tag_list |-> Null],
    [id |-> <<"7">>, path |-> <<"a", "l", "/", "x">>, status |-> 200, description |-> Null,
     tag_list |-> Null] }

Memberships ==
  UNION {[U -> SUBSET (1..MaxProjects)] : U \in (SUBSET UserPool) \ {{}}}

Sites ==
  {[projects |-> ps, members |-> m, owner |-> o, users_status |-> st] :
     ps \in {{}, ProjectPool}, m \in Memberships, o \in UserPool,
     st \in {200, 500}}

Inputs ==
  { <<"1", "2">>, <<" ", "1", "2", " ">>, <<"7">>, <<"a", "l">>, <<" ", "b", "o">>, <<>>, <<"x", "1", "2">>,
    <<"h", "t", "t", "p", "s", ":", "/", "/", "c", "o", "d", "e", ".", "s", "w", "e", "c", "h", "a", ".", "o", "r", "g", "/", "g", "/", "p">>,
    <<" ", "h", "t", "t", "p", "s", ":", "/", "/", "c", "o", "d", "e", ".", "s", "w", "e", "c", "h", "a", ".", "o", "r", "g", "/", "g", "/", "p", "/", "-", "/", "t", "r", "e", "e", "/", "m", "a", "i", "n">>,
    <<"h", "t", "t", "p", "s", ":", "/", "/", "c", "o", "d", "e", ".", "s", "w", "e", "c", "h", "a", ".", "o", "r", "g", "/", "1", "2">> }

InitInput ==
  /\ files = {}
  /\ tree = NoTree
  /\ project = HostedProject(404, Null, Null)
  /\ site \in {s \in Sites : s.owner \in DOMAIN s.members}
  /\ listing \in {[endless |-> FALSE, items |-> SetToSeq(site.members[site.owner]),
                   fail_at |-> f] : f \in 0..1}
  /\ Idle

NextInput ==
  \/ \E raw \in Inputs : DetermineInput(raw)
  \/ PageStep

SpecInput == InitInput /\ [][NextInput]_vars

(***************************************************************************)
(* Properties of the compliance evaluator (SpecStatus)                     *)
(***************************************************************************)
StatusReturned == call.fn = "get_compliance_status" /\ pc = "idle"

SixChecksTrue ==
  /\ \A i \in 1..Len(REQUIRED_FILES) :
       \E b \in {"master", "main"}, j \in 1..Len(ChangelogCandidates) :
         \/ <<HostedId, REQUIRED_FILES[i], b>> \in files
         \/ /\ REQUIRED_FILES[i] = CHANGELOG
            /\ <<HostedId, ChangelogCandidates[j], b>> \in files
  /\ tree = [status |-> 200, entries |-> CompleteListing]

\* C1: when the final GET /projects/<id> is answered with a status other than
\* 200, get_compliance_status returns the empty mapping, whatever the four file
\* checks and the two template checks found; no partial result is returned.
C1_AllOrNothing ==
  (StatusReturned /\ project.status # 200) => DOMAIN result = {}

\* C1 witness: all four files and both templates are present, the metadata
\* request fails, and the call has returned.
C1_Witness ==
  /\ StatusReturned
  /\ SixChecksTrue
  /\ project.status # 200
  /\ requests[Len(requests)].endpoint = "projects/:id"
  /\ DOMAIN result = {}

EightKeys ==
  { README, CONTRIBUTING, CHANGELOG, LICENSE, ISSUE_KEY, MR_KEY,
    DESCRIPTION_KEY, TAGS_KEY }

\* C2: every non-empty result of get_compliance_status has exactly the eight
\* keys, each mapped to a boolean, so total is 8 and score lies in 0..8.
C2_EightBooleans ==
  (StatusReturned /\ DOMAIN result # {}) =>
     /\ DOMAIN result = EightKeys
     /\ \A k \in DOMAIN result : result[k] \in BOOLEAN
     /\ total(result) = 8
     /\ score(result) \in 0..8

\* C2 witness: a non-empty result for a project whose description and tag list
\* are both null, with some checks met and some not.
C2_Witness ==
  /\ StatusReturned
  /\ DOMAIN result # {}
  /\ project.description.null
  /\ project.tag_list.null
  /\ score(result) > 0
  /\ score(result) < total(result)

\* C4: for the listing 0001-bug-issue-template.md, random.md,
\* merge_request_template.MD, directory_contains_templates returns true with
\* the issue patterns and true with the merge request patterns.
C4_ExampleListingMatches ==
  ( /\ call.fn = "directory_contains_templates"
    /\ tree = [status |-> 200, entries |-> ExampleListing] )
  => result = TRUE

(***************************************************************************)
(* Properties of the file presence resolver (SpecFiles)                    *)
(***************************************************************************)
FileExistsReturned == call.fn = "file_exists" /\ pc = "idle"

Present(path, branch) == <<HostedId, path, branch>> \in files

Refs == [i \in 1..Len(requests) |-> requests[i].params.ref]

\* C5 as stated: a file present on main is found without any lookup for master.
C5_NoMasterLookup ==
  (FileExistsReturned /\ Present(call.arg[2], "main")) =>
     /\ result = TRUE
     /\ \A i \in 1..Len(requests) : Refs[i] # "master"

\* C5 amended: a file present on main is found; the lookup for master is issued
\* first, and the lookup for main only when master is not answered with 200.
C5_FoundOnMain ==
  (FileExistsReturned /\ Present(call.arg[2], "main")) =>
     /\ result = TRUE
     /\ Refs[1] = "master"
     /\ Present(call.arg[2], "master") => Refs = <<"master">>
     /\ ~Present(call.arg[2], "master") => Refs = <<"master", "main">>

\* C5 witness: the file is on main only and file_exists has returned true.
C5_Witness ==
  /\ FileExistsReturned
  /\ Present(call.arg[2], "main")
  /\ ~Present(call.arg[2], "master")
  /\ result = TRUE

FlexibleReturned ==
  call.fn = "file_exists_flexible" /\ call.arg[2] = CHANGELOG /\ pc = "idle"

\* position of a probed name in the candidate list (0: not a candidate)
CandidateIndex(target) ==
  IF \E i \in 1..Len(ChangelogCandidates) : quote(ChangelogCandidates[i]) = target
  THEN CHOOSE i \in 1..Len(ChangelogCandidates) : quote(ChangelogCandidates[i]) = target
  ELSE 0

Answer(rq) == FileLookup(rq.project, rq.target, rq.params.ref)

\* C6: file_exists_flexible(CHANGELOG.md) is true exactly when one of the seven
\* candidate names is present on master or main; candidates are probed in the
\* fixed order and nothing is probed after the first hit.
C6_FlexibleChangelog ==
  FlexibleReturned =>
     /\ result = (\E i \in 1..Len(ChangelogCandidates), b \in {"master", "main"} :
                     Present(ChangelogCandidates[i], b))
     /\ \A i \in 1..Len(requests) : CandidateIndex(requests[i].target) > 0
     /\ \A i \in 1..Len(requests), j \in 1..Len(requests) :
          i < j => CandidateIndex(requests[i].target) <= CandidateIndex(requests[j].target)
     /\ \A i \in 1..Len(requests), k \in 1..Len(ChangelogCandidates) :
          k < CandidateIndex(requests[i].target)
            => \E j \in 1..i : CandidateIndex(requests[j].target) = k
     /\ \A i \in 1..(Len(requests) - 1) : Answer(requests[i]) # 200

\* C6 witness: the repository holds only changelog.txt and the call returned true.
C6_Witness ==
  /\ FlexibleReturned
  /\ \E b \in {"master", "main"} : files = {<<HostedId, <<"c", "h", "a", "n", "g", "e", "l", "o", "g", ".", "t", "x", "t">>, b>>}
  /\ result = TRUE

\* C9: file_exists probes master, then main, one lookup per branch; it returns
\* true at the first 200 without probing the other branch and false exactly
\* when both lookups are answered with a status other than 200.
C9_MasterThenMain ==
  FileExistsReturned =>
     /\ Len(requests) \in 1..2
     /\ \A i \in 1..Len(requests) : requests[i].endpoint = "repository/files"
     /\ Refs[1] = "master"
     /\ Len(requests) = 2 => Refs[2] = "main"
     /\ \A i \in 1..(Len(requests) - 1) : Answer(requests[i]) # 200
     /\ result = (Answer(requests[Len(requests)]) = 200)
     /\ (result = FALSE) <=> ( /\ Len(requests) = 2
                              /\ \A i \in 1..2 : Answer(requests[i]) # 200 )

\* C9 witness: the file is on both branches and a single lookup was made.
C9_Witness ==
  /\ FileExistsReturned
  /\ Present(call.arg[2], "master")
  /\ Present(call.arg[2], "main")
  /\ result = TRUE
  /\ Len(requests) = 1

(***************************************************************************)
(* Properties of the pagination aggregator (SpecPages)                     *)
(***************************************************************************)
Paginating == call.fn = "get_all_projects_with_pagination"

PaginationReturned == Paginating /\ pc = "idle"

PageAnswer(i) == ListLookup(requests[i].params.page)

\* the j-th item of the pages 1, 2, ... laid end to end
Upstream(j) == ListPage(((j - 1) \div per_page) + 1)[((j - 1) % per_page) + 1]

\* C7: for an endpoint that serves N items in pages of 100 and answers every
\* request with 200, the aggregator returns exactly the N items in upstream
\* order, each once, with N \div 100 + 1 requests numbered 1, 2, ...
C7_AllItemsOnce ==
  ( /\ PaginationReturned
    /\ ~listing.endless
    /\ \A i \in 1..Len(requests) : PageAnswer(i).status_code = 200 )
  => /\ result = listing.items
     /\ \A i \in 1..Len(result), j \in 1..Len(result) :
          result[i] = result[j] => i = j
     /\ Len(requests) = (Len(listing.items) \div per_page) + 1
     /\ \A i \in 1..Len(requests) :
          /\ requests[i].endpoint = "projects"
          /\ requests[i].params.page = i
          /\ requests[i].params.per_page = per_page

\* C7 witness: 250 items were served and the call returned after 3 requests.
C7_Witness ==
  /\ PaginationReturned
  /\ ~listing.endless
  /\ Len(listing.items) = 250
  /\ Len(result) = 250
  /\ Len(requests) = 3
  /\ \A i \in 1..3 : PageAnswer(i).status_code = 200

\* what holds of the loop at every moment and of its return value
PaginationSafe ==
  Paginating =>
     /\ Len(requests) <= MAX_PAGE
     /\ \A i \in 1..Len(requests) : requests[i].params.page = i
     /\ \A i \in 1..(Len(requests) - 1) :
          PageAnswer(i).status_code = 200 /\ Len(PageAnswer(i).json) = per_page
     /\ pc = "paging" =>
          /\ page = Len(requests) + 1
          /\ ~warned
          /\ Len(requests) > 0 =>
               /\ PageAnswer(Len(requests)).status_code = 200
               /\ Len(PageAnswer(Len(requests)).json) = per_page
     /\ pc = "idle" =>
          LET n    == Len(requests)
              last == PageAnswer(n)
              got  == IF last.status_code = 200 THEN Len(last.json) ELSE 0
          IN /\ n >= 1
             /\ \/ last.status_code # 200
                \/ Len(last.json) < per_page
                \/ n = MAX_PAGE
             /\ Len(result) = (n - 1) * per_page + got
             /\ \A j \in 1..Len(result) : result[j] = Upstream(j)
             /\ warned => page > MAX_PAGE /\ n = MAX_PAGE /\ got = per_page

\* C10: the aggregator terminates against every server, issues at most 1000
\* requests, stops at the first answer that is not 200 or is a short page,
\* returns the concatenation of every page received, and warns only when the
\* page number passed 1000.
C10_TerminatesAndKeeps ==
  /\ []PaginationSafe
  /\ [](pc = "paging" => <>(pc = "idle"))

\* C10 witness: a server that serves full pages without end fails the third
\* request; the call returned the 200 items of the first two pages, unwarned.
C10_Witness ==
  /\ PaginationReturned
  /\ listing.endless
  /\ listing.fail_at = 3
  /\ Len(requests) = 3
  /\ PageAnswer(3).status_code # 200
  /\ Len(result) = 2 * per_page
  /\ ~warned

(***************************************************************************)
(* Properties of the input classifier (SpecInput)                          *)
(***************************************************************************)
ClassifierReturned == call.fn = "determine_input_type_and_process" /\ pc = "idle"

Trimmed == strip(call.arg)

\* the projects in which user u has membership, in upstream order
ProjectsOf(u) == SetToSeq(site.members[u])

\* C3: for a username that resolves to an existing user, the classifier returns
\* ('projects', L) with L the projects of which that user is a member.
C3_ProjectsOfNamedUser ==
  ( /\ ClassifierReturned
    /\ input_branch(Trimmed) = "username"
    /\ site.users_status = 200
    /\ listing.fail_at = 0
    /\ Trimmed \in DOMAIN site.members
    /\ site.members[Trimmed] # {} )
  => result = Outcome("projects", ProjectsOf(Trimmed))

\* C8: an input that is all digits after trimming issues the project-by-ID
\* lookup only, never a user search or a project listing; the result is
\* ('project', p) on 200 and the error "No project found with ID: <input>"
\* otherwise.
C8_DigitsAreProjectId ==
  (call.fn = "determine_input_type_and_process" /\ isdigit(Trimmed)) =>
     /\ pc = "idle"
     /\ requests = <<Request("projects/:id", Trimmed, Trimmed, NoParams)>>
     /\ result.kind \in {"project", "error"}
     /\ ProjectLookup(Trimmed).status_code = 200
          => result = Outcome("project", ProjectLookup(Trimmed).json)
     /\ ProjectLookup(Trimmed).status_code # 200
          => result = Outcome("error", <<"N", "o", " ", "p", "r", "o", "j", "e", "c", "t", " ", "f", "o", "u", "n", "d", " ", "w", "i", "t", "h", " ", "I", "D", ":", " ">> \o Trimmed)

\* C8 witness: the input " 12 " names both a project and a user; the project
\* was returned.
C8_Witness ==
  /\ ClassifierReturned
  /\ call.arg = <<" ", "1", "2", " ">>
  /\ <<"1", "2">> \in DOMAIN site.members
  /\ site.members[<<"1", "2">>] # {}
  /\ site.users_status = 200
  /\ result.kind = "project"
  /\ result.data.id = <<"1", "2">>

====
